---- MODULE Spec2Model ----
(***************************************************************************)
(* A SEED backend (src/main.py): the contextual memory subsystem.          *)
(*                                                                         *)
(* Spec          the memory store and the /api/chat pipeline, run by two   *)
(*               request threads (waitress serves requests concurrently),  *)
(*               one file-system operation per step.                       *)
(* SpecRetrieve  find_relevant_npy applied to bounded collections.         *)
(* SpecTrend     analyze_user_trends applied to bounded session stores.    *)
(* SpecCosine    cosine_sim applied to bounded vectors.                    *)
(* SpecTurns     the chat turns of one user.                               *)
(* SpecBackend   the pipeline with an embedding backend that answers       *)
(*               anything.                                                 *)
(* SpecAccounts  registration, session saves and chat turns.               *)
(* SpecSave      /api/save and /api/load, one file-system call per step.   *)
(* Strings are sequences of one-character tokens; a path is a sequence of  *)
(* components, each a sequence of tokens.  Floating-point numbers are      *)
(* modelled by exact rationals (cosine similarities are compared by cross  *)
(* multiplication), so rounding is not modelled.                           *)
(***************************************************************************)
EXTENDS Integers, Sequences, FiniteSets, TLC

VARIABLES
    fs,          \* the files of data/: resolved path -> content
    sess,        \* data/sessions: sanitized user dir -> (file name -> transcript)
    now,         \* the wall clock read by now_ts()
    th,          \* per request thread: position in api_chat and its locals
    turns,       \* number of chat requests started so far
    log,         \* history: the appends whose write completed, oldest first
    overlapped,  \* history: the paths on which two appends have overlapped
    rq,          \* SpecRetrieve: the call of find_relevant_npy and what it returned
    tr,          \* SpecTrend: the call of analyze_user_trends and what it returned
    users,       \* data/users.json: the registered usernames
    sv           \* SpecSave: the session directory, the /api/save threads, the reads

vars == <<fs, sess, now, th, turns, log, overlapped, rq, tr, users, sv>>

----------------------------------------------------------------------------
(* Bounds of the model *)

MaxTurns == 2      \* chat requests started in one behaviour
MaxRecords == 4    \* records of a collection find_relevant_npy is applied to
MaxChatLen == 4    \* turns of a transcript analyze_user_trends is applied to
MaxSaves == 3      \* /api/save requests started in one behaviour of SpecSave
MaxDim == 2        \* length of the vectors cosine_sim is applied to

\* the clock at the start: any time later than TREND_DAYS days after the epoch
BaseNow == 1000000

Threads == {"t1", "t2"}

EmptyStr == << >>  \* the empty string ""

----------------------------------------------------------------------------
(* Strings *)

Whitespace == {" "}

RECURSIVE LStrip(_)
LStrip(s) == IF s # << >> /\ Head(s) \in Whitespace THEN LStrip(Tail(s)) ELSE s

RECURSIVE RStrip(_)
RStrip(s) ==
    IF s # << >> /\ s[Len(s)] \in Whitespace
    THEN RStrip(SubSeq(s, 1, Len(s) - 1))
    ELSE s

\* a strip that removes nothing (faulty variant)
StripNothing(s) == s

\* str.strip()
Strip(s) == RStrip(LStrip(s))

\* the characters matched by \w or "-" (kept by the sanitizer)
WordChars == {"a", "b", "0", "_", "-"}

RECURSIVE FilterSeq(_, _)
FilterSeq(s, keep) ==
    IF s = << >> THEN << >>
    ELSE IF Head(s) \in keep
         THEN <<Head(s)>> \o FilterSeq(Tail(s), keep)
         ELSE FilterSeq(Tail(s), keep)

\* a sanitizer that removes nothing (faulty variant)
SanitizeDropsNothing(uid) == uid

\* re.sub(r'[^\w-]', '', user_id)
Sanitize(uid) == FilterSeq(uid, WordChars)

----------------------------------------------------------------------------
(* Paths *)

DATA_DIR == << <<"data">> >>
MEM_DIR == DATA_DIR \o << <<"memories">> >>
SESS_DIR == DATA_DIR \o << <<"sessions">> >>

\* the components of a relative path string, split at "/"
RECURSIVE SplitPath(_, _)
SplitPath(s, cur) ==
    IF s = << >> THEN <<cur>>
    ELSE IF Head(s) = "/" THEN <<cur>> \o SplitPath(Tail(s), << >>)
         ELSE SplitPath(Tail(s), Append(cur, Head(s)))

\* the file the operating system opens for dir / name: "." and "" stay,
\* ".." goes up one directory
RECURSIVE Resolve(_, _)
Resolve(dir, comps) ==
    IF comps = << >> THEN dir
    ELSE LET c == Head(comps) IN
         IF c = << >> \/ c = <<".">> THEN Resolve(dir, Tail(comps))
         ELSE IF c = <<".", ".">>
              THEN Resolve(IF dir = << >> THEN dir ELSE SubSeq(dir, 1, Len(dir) - 1),
                           Tail(comps))
              ELSE Resolve(Append(dir, c), Tail(comps))

PathJoin(dir, name) == Resolve(dir, SplitPath(name, << >>))

\* get_mem_path(user_id)
get_mem_path(user_id) == PathJoin(MEM_DIR, Sanitize(user_id) \o <<".json">>)

\* path.exists()
Exists(p) == p \in DOMAIN fs

----------------------------------------------------------------------------
(* File contents.  A file holds a complete JSON document, or, while a     *)
(* writer has opened it with mode "w" and not finished json.dump, a strict *)
(* prefix of one ("partial"), or the mix two overlapping writers leave     *)
(* ("garbled").  Only a complete document parses.                          *)

JsonFile(d) == [kind |-> "json", data |-> d]
PartialFile == [kind |-> "partial", data |-> << >>]
GarbledFile == [kind |-> "garbled", data |-> << >>]

\* json.load(path.open("r")): the document (ok), or an exception (~ok)
JsonLoad(p) ==
    IF fs[p].kind = "json" THEN [ok |-> TRUE, data |-> fs[p].data]
    ELSE [ok |-> FALSE, data |-> << >>]

\* fs with file p holding content c
WriteFile(p, c) == [q \in DOMAIN fs \cup {p} |-> IF q = p THEN c ELSE fs[q]]

----------------------------------------------------------------------------
(* Embedding client *)

\* what requests.post(.../api/embeddings) can lead get_embedding to return:
\* None (exception, timeout, status # 200, no "embedding" key), an empty
\* list, or a vector of whatever length the backend sent
\* A result is Python's None (none) or a list (vec).
NoneVec == [none |-> TRUE, vec |-> << >>]
SomeVec(v) == [none |-> FALSE, vec |-> v]
EmbedResults == {NoneVec, SomeVec(<< >>), SomeVec(<<1, 0>>)}

\* a component that is not a number: get_embedding returns the "embedding"
\* member of the response as it is, whatever JSON value it holds
NonNumber == 99

\* the results of a backend that also sends a vector of another length and
\* a list of strings
BackendEmbedResults == EmbedResults \cup {SomeVec(<<1>>), SomeVec(<<NonNumber, NonNumber>>)}

\* a test for None only, which lets an empty list through (faulty variant)
VecUsableNotNone(e) == ~e.none

\* "if not vec: return" / "if not q_vec: return ''"
VecUsable(e) == ~e.none /\ e.vec # << >>

----------------------------------------------------------------------------
(* Cosine similarity.  A similarity is num / sqrt(den2), den2 > 0.        *)

RECURSIVE Dot(_, _)
Dot(v1, v2) ==
    IF v1 = << >> THEN 0 ELSE Head(v1) * Head(v2) + Dot(Tail(v1), Tail(v2))

ZeroSim == [num |-> 0, den2 |-> 1]

\* sum(a * b for a, b in zip(v1, v2)): zip stops at the shorter list
RECURSIVE DotZip(_, _)
DotZip(v1, v2) ==
    IF v1 = << >> \/ v2 = << >> THEN 0
    ELSE Head(v1) * Head(v2) + DotZip(Tail(v1), Tail(v2))

\* cosine_sim without the tests of its first line (faulty variant)
cosine_sim_untested(v1, v2) ==
    LET dot == DotZip(v1, v2)
        mag1sq == Dot(v1, v1)
        mag2sq == Dot(v2, v2)
    IN IF mag1sq = 0 \/ mag2sq = 0 THEN ZeroSim
       ELSE [num |-> dot, den2 |-> mag1sq * mag2sq]

\* cosine_sim(v1, v2)
cosine_sim(v1, v2) ==
    IF v1 = << >> \/ v2 = << >> \/ Len(v1) # Len(v2) THEN ZeroSim
    ELSE LET dot == Dot(v1, v2)
             mag1sq == Dot(v1, v1)
             mag2sq == Dot(v2, v2)
         IN IF mag1sq = 0 \/ mag2sq = 0 THEN ZeroSim
            ELSE [num |-> dot, den2 |-> mag1sq * mag2sq]

\* cosine_sim raises TypeError: past the tests of line 113, sum(a * b ...)
\* meets a component that is not a number
cosine_sim_raises(v1, v2) ==
    /\ v1 # << >> /\ v2 # << >> /\ Len(v1) = Len(v2)
    /\ \E i \in 1..Len(v1) : v1[i] = NonNumber \/ v2[i] = NonNumber

\* a < b for similarities
SimLess(a, b) ==
    IF a.num < 0 /\ b.num >= 0 THEN TRUE
    ELSE IF a.num >= 0 /\ b.num < 0 THEN FALSE
    ELSE IF a.num >= 0
         THEN a.num * a.num * b.den2 < b.num * b.num * a.den2
         ELSE a.num * a.num * b.den2 > b.num * b.num * a.den2

SimEq(a, b) == ~SimLess(a, b) /\ ~SimLess(b, a)

----------------------------------------------------------------------------
(* Retrieval *)

\* x goes before the elements of equal score: a sort that is not stable
\* (faulty variant)
RECURSIVE InsertDescUnstable(_, _)
InsertDescUnstable(sorted, x) ==
    IF sorted = << >> THEN <<x>>
    ELSE IF SimLess(x.score, Head(sorted).score)
         THEN <<Head(sorted)>> \o InsertDescUnstable(Tail(sorted), x)
         ELSE <<x>> \o sorted

\* x goes before the first element whose score is smaller than x's: the
\* place list.sort(key=..., reverse=True), a stable sort, gives it
RECURSIVE InsertDesc(_, _)
InsertDesc(sorted, x) ==
    IF sorted = << >> THEN <<x>>
    ELSE IF SimLess(Head(sorted).score, x.score)
         THEN <<x>> \o sorted
         ELSE <<Head(sorted)>> \o InsertDesc(Tail(sorted), x)

RECURSIVE SortDescFrom(_, _)
SortDescFrom(done, rest) ==
    IF rest = << >> THEN done
    ELSE SortDescFrom(InsertDesc(done, Head(rest)), Tail(rest))

\* scores.sort(key=lambda x: x[0], reverse=True)
SortDesc(scores) == SortDescFrom(<< >>, scores)

\* scores[:top_k], top_k >= 0
Take(s, k) == SubSeq(s, 1, IF k < Len(s) THEN k ELSE Len(s))

\* the scores list of find_relevant_npy: (cosine_sim(q_vec, item.vector), item.text);
\* idx is the position in the collection (not in the code: it lets a
\* property tell two equal texts apart)
Scores(q_vec, data) ==
    [i \in 1..Len(data) |->
        [score |-> cosine_sim(q_vec, data[i].vector), text |-> data[i].text, idx |-> i]]

\* the entries find_relevant_npy keeps
TopScores(q_vec, data, top_k) == Take(SortDesc(Scores(q_vec, data)), top_k)

\* the string find_relevant_npy returns, as its lines: "" or the label
\* line followed by one "- text" line per entry
ContextBlock(res) ==
    IF res = << >> THEN EmptyStr
    ELSE << <<"[Relevant Context]:">> >> \o [i \in 1..Len(res) |-> <<"- ">> \o res[i]]

TOP_K == 3

\* find_relevant_npy raises: the scoring loop, outside any try, calls
\* cosine_sim on a pair it raises on
find_relevant_raises(p, q_vec) ==
    /\ VecUsable(q_vec)
    /\ JsonLoad(p).ok
    /\ \E i \in 1..Len(JsonLoad(p).data) : cosine_sim_raises(q_vec.vec, JsonLoad(p).data[i].vector)

\* find_relevant_npy after the path.exists() test: q_vec is what
\* get_embedding(query) returned, p the user's file
find_relevant_load(p, q_vec, top_k) ==
    IF ~VecUsable(q_vec) THEN EmptyStr
    ELSE LET loaded == JsonLoad(p) IN
         IF ~loaded.ok THEN EmptyStr
         ELSE IF loaded.data = << >> THEN EmptyStr
         ELSE LET top == TopScores(q_vec.vec, loaded.data, top_k) IN
              ContextBlock([i \in 1..Len(top) |-> top[i].text])

----------------------------------------------------------------------------
(* Trend analysis.  A transcript is what json.load gives for a session     *)
(* file: [has_updated, updated, chat]; a turn is [role, text, has_emotion, *)
(* emotion].                                                               *)

SECONDS_PER_DAY == 86400
TREND_DAYS == 5
MIN_SAMPLES == 3
\* the ratio 0.4 as RATIO_NUM / RATIO_DEN
RATIO_NUM == 4
RATIO_DEN == 10

\* o.get("updated", 0)
DocUpdated(o) == IF o.has_updated THEN o.updated ELSE 0

\* m.get("emotion", "neutral")
TurnEmotion(m) == IF m.has_emotion THEN m.emotion ELSE "neutral"

\* cutoff = now_ts() - (days * 86400)
Cutoff(t, days) == t - days * SECONDS_PER_DAY

\* a window that takes in its start (faulty variant)
InWindowInclusive(o, cutoff) == DocUpdated(o) >= cutoff

\* "if o.get('updated', 0) > cutoff"
InWindow(o, cutoff) == DocUpdated(o) > cutoff

\* files: the transcripts kept, in the order glob lists them
RECURSIVE RecentFiles(_, _)
RecentFiles(listing, cutoff) ==
    IF listing = << >> THEN << >>
    ELSE IF InWindow(Head(listing), cutoff)
         THEN <<Head(listing)>> \o RecentFiles(Tail(listing), cutoff)
         ELSE RecentFiles(Tail(listing), cutoff)

\* cnt[e] = cnt.get(e, 0) + 1 on a dict, kept as the list of its
\* (label, n) items in insertion order
CntAdd(cnt, e) ==
    IF \E i \in 1..Len(cnt) : cnt[i].label = e
    THEN [i \in 1..Len(cnt) |->
            IF cnt[i].label = e THEN [label |-> e, n |-> cnt[i].n + 1] ELSE cnt[i]]
    ELSE Append(cnt, [label |-> e, n |-> 1])

\* "if m.get('role') == 'assistant'" and "if e != 'neutral'"
CountsTurn(m) == m.role = "assistant" /\ TurnEmotion(m) # "neutral"

RECURSIVE TallyChat(_, _)
TallyChat(cnt, chat) ==
    IF chat = << >> THEN cnt
    ELSE TallyChat(IF CountsTurn(Head(chat)) THEN CntAdd(cnt, TurnEmotion(Head(chat))) ELSE cnt,
                   Tail(chat))

RECURSIVE TallyFiles(_, _)
TallyFiles(cnt, files) ==
    IF files = << >> THEN cnt
    ELSE TallyFiles(TallyChat(cnt, Head(files).chat), Tail(files))

\* max(cnt, key=cnt.get): the first item, in insertion order, of greatest count
MaxItem(cnt) ==
    cnt[CHOOSE i \in 1..Len(cnt) :
            /\ \A j \in 1..Len(cnt) : cnt[j].n <= cnt[i].n
            /\ \A j \in 1..(i - 1) : cnt[j].n < cnt[i].n]

RECURSIVE SumCounts(_)
SumCounts(cnt) == IF cnt = << >> THEN 0 ELSE Head(cnt).n + SumCounts(Tail(cnt))

\* a threshold met by the ratio 0.4 itself (faulty variant)
HintDueAtRatio(c, tot) == tot >= MIN_SAMPLES /\ c * RATIO_DEN >= RATIO_NUM * tot

\* "if tot >= 3 and (c / tot) > 0.4", the floating-point comparison done
\* on integers
HintDue(c, tot) == tot >= MIN_SAMPLES /\ c * RATIO_DEN > RATIO_NUM * tot

\* dom.upper()
Upper(label) ==
    CASE label = "sadness" -> "SADNESS"
      [] label = "joy" -> "JOY"
      [] label = "anger" -> "ANGER"
      [] label = "fear" -> "FEAR"
      [] label = "anxiety" -> "ANXIETY"
      [] OTHER -> label

\* bad = ["sadness", "anger", "fear", "anxiety"]
BadMoods == {"sadness", "anger", "fear", "anxiety"}

\* every mood taken for a bad one (faulty variant)
IsBadMoodAlways(dom) == TRUE

\* "if dom in bad"
IsBadMood(dom) == dom \in BadMoods

\* the value analyze_user_trends returns: "" (~hint) or the trend note with
\* its days, upper-cased label, c, tot, and the intervention line or not
NoHint == [hint |-> FALSE, days |-> 0, mood |-> "", c |-> 0, tot |-> 0, intervention |-> FALSE]

\* analyze_user_trends from "if not files" on
TrendOfFiles(files, days) ==
    IF files = << >> THEN NoHint
    ELSE LET cnt == TallyFiles(<< >>, files) IN
         IF cnt = << >> THEN NoHint
         ELSE LET dom == MaxItem(cnt)
                  tot == SumCounts(cnt)
              IN IF HintDue(dom.n, tot)
                 THEN [hint |-> TRUE, days |-> days, mood |-> Upper(dom.label),
                       c |-> dom.n, tot |-> tot, intervention |-> IsBadMood(dom.label)]
                 ELSE NoHint

\* analyze_user_trends(user_id, days): store is the session store, t the
\* clock, order the file names of the user's directory as glob lists them
analyze_user_trends(store, t, user_id, days, order) ==
    LET uid == Sanitize(user_id) IN
    IF uid \notin DOMAIN store THEN NoHint
    ELSE TrendOfFiles(RecentFiles([i \in 1..Len(order) |-> store[uid][order[i]]],
                                  Cutoff(t, days)),
                      days)

\* the orders glob can list a set of file names in
Orders(S) == {o \in [1..Cardinality(S) -> S] : \A i, j \in 1..Cardinality(S) : i # j => o[i] # o[j]}

----------------------------------------------------------------------------
(* The /api/chat pipeline.  Each action is one stretch of api_chat between *)
(* two accesses to the shared files; the calls to the embedding and        *)
(* generation backends touch nothing shared and are part of the stretch    *)
(* that uses their result.                                                 *)

\* session['user_id'] of the requests: any string can be a registered username
UserIds == {<<"a">>, <<".", ".", "/", "a">>, <<"b">>}

\* the "message" field of a request
Messages == {<<" ">>, <<" ", "h">>}

\* what ollama_chat returns: {"text": "", "error": ...} after an exception,
\* else {"text": content} with content "" when the response has none
GenResults ==
    {[error |-> TRUE, text |-> EmptyStr], [error |-> FALSE, text |-> EmptyStr],
     [error |-> FALSE, text |-> <<" ">>], [error |-> FALSE, text |-> <<"r">>]}

NoResp == [status |-> 0, error |-> "", reply |-> EmptyStr, emotion |-> ""]

Idle ==
    [pc |-> "idle", uid |-> EmptyStr, msg |-> EmptyStr, trend |-> NoHint,
     ctx |-> EmptyStr, failed |-> FALSE, txt |-> EmptyStr, saving |-> "user",
     data |-> << >>, wrote |-> 0, resp |-> NoResp]

Set(t, r) == th' = [th EXCEPT ![t] = r]

\* the text save_memory_npy is called with: msg for role "user", txt for "assistant"
SaveText(l) == IF l.saving = "user" THEN l.msg ELSE l.txt

\* where api_chat goes when a save_memory_npy call returns
AfterSave(l) ==
    IF l.saving = "user"
    THEN [l EXCEPT !.pc = "save", !.saving = "assistant", !.data = << >>]
    ELSE [l EXCEPT !.pc = "respond", !.data = << >>]

\* the threads inside the load .. dump part of save_memory_npy on path p
Writers(p) ==
    {u \in Threads : th[u].pc \in {"save_open", "save_dump"} /\ get_mem_path(th[u].uid) = p}

\* api_chat calling find_relevant_npy before analyze_user_trends (faulty variant)
api_chat_begin_retrieve_first(t, uid, message) ==
    /\ th[t].pc = "idle"
    /\ uid \in users
    /\ turns < MaxTurns
    /\ turns' = turns + 1
    /\ LET msg == Strip(message) IN
       IF msg = EmptyStr
       THEN Set(t, [Idle EXCEPT !.pc = "done", !.uid = uid,
                                !.resp = [NoResp EXCEPT !.status = 400, !.error = "empty"]])
       ELSE Set(t, [Idle EXCEPT !.pc = "rag_exists", !.uid = uid, !.msg = msg])
    /\ UNCHANGED <<fs, sess, now, log, overlapped, rq, tr, users, sv>>

\* api_chat up to "if not msg": the session belongs to a logged-in user
\* (api_login accepts registered usernames only) and the request is validated
api_chat_begin(t, uid, message) ==
    /\ th[t].pc = "idle"
    /\ uid \in users
    /\ turns < MaxTurns
    /\ turns' = turns + 1
    /\ LET msg == Strip(message) IN
       IF msg = EmptyStr
       THEN Set(t, [Idle EXCEPT !.pc = "done", !.uid = uid,
                                !.resp = [NoResp EXCEPT !.status = 400, !.error = "empty"]])
       ELSE Set(t, [Idle EXCEPT !.pc = "trend", !.uid = uid, !.msg = msg])
    /\ UNCHANGED <<fs, sess, now, log, overlapped, rq, tr, users, sv>>

\* trend_ctx = analyze_user_trends(uid)
api_chat_trend(t) ==
    /\ th[t].pc = "trend"
    /\ LET dir == Sanitize(th[t].uid)
           names == IF dir \in DOMAIN sess THEN DOMAIN sess[dir] ELSE {}
       IN \E order \in Orders(names) :
            Set(t, [th[t] EXCEPT !.pc = "rag_exists",
                                 !.trend = analyze_user_trends(sess, now, th[t].uid, TREND_DAYS, order)])
    /\ UNCHANGED <<fs, sess, now, turns, log, overlapped, rq, tr, users, sv>>

\* find_relevant_npy: "if not path.exists(): return ''"
find_relevant_exists(t) ==
    /\ th[t].pc = "rag_exists"
    /\ IF Exists(get_mem_path(th[t].uid))
       THEN Set(t, [th[t] EXCEPT !.pc = "rag_load"])
       ELSE Set(t, [th[t] EXCEPT !.pc = "generate", !.ctx = EmptyStr])
    /\ UNCHANGED <<fs, sess, now, turns, log, overlapped, rq, tr, users, sv>>

\* find_relevant_npy from q_vec = get_embedding(query) to its return;
\* e is what get_embedding returned.  An exception it raises is not caught
\* in api_chat: the request ends with the server's 500 response
find_relevant_rank(t, e) ==
    /\ th[t].pc = "rag_load"
    /\ IF find_relevant_raises(get_mem_path(th[t].uid), e)
       THEN Set(t, [th[t] EXCEPT !.pc = "done",
                                 !.resp = [NoResp EXCEPT !.status = 500, !.error = "internal"]])
       ELSE Set(t, [th[t] EXCEPT !.pc = "generate",
                                 !.ctx = find_relevant_load(get_mem_path(th[t].uid), e, TOP_K)])
    /\ UNCHANGED <<fs, sess, now, turns, log, overlapped, rq, tr, users, sv>>

\* api_chat going on to the saves whatever ollama_chat returned (faulty variant)
api_chat_generate_unchecked(t, g) ==
    /\ th[t].pc = "generate"
    /\ Set(t, [th[t] EXCEPT !.pc = "save", !.saving = "user", !.txt = g.text,
                            !.failed = (g.error \/ g.text = EmptyStr)])
    /\ UNCHANGED <<fs, sess, now, turns, log, overlapped, rq, tr, users, sv>>

\* out = ollama_chat(msgs); "if not txt: return 500"; failed records that
\* the call raised or gave no text
api_chat_generate(t, g) ==
    /\ th[t].pc = "generate"
    /\ IF g.text = EmptyStr
       THEN Set(t, [th[t] EXCEPT !.pc = "done", !.txt = g.text, !.failed = TRUE,
                                 !.resp = [NoResp EXCEPT !.status = 500, !.error = "backend-failed"]])
       ELSE Set(t, [th[t] EXCEPT !.pc = "save", !.saving = "user", !.txt = g.text,
                                 !.failed = g.error])
    /\ UNCHANGED <<fs, sess, now, turns, log, overlapped, rq, tr, users, sv>>

\* the record save_memory_npy appends
NewRecord(l, vec) == [ts |-> now, role |-> l.saving, text |-> SaveText(l), vector |-> vec]

\* a save that starts from an empty list every time (faulty variant)
LoadOrEmptyFresh(p) == << >>

\* data = [] unless the file exists and parses
LoadOrEmpty(p) == IF Exists(p) /\ JsonLoad(p).ok THEN JsonLoad(p).data ELSE << >>

\* save_memory_npy up to data.append(...): "if not text.strip(): return",
\* vec = get_embedding(text) (e is what it returned), "if not vec: return",
\* then the collection is loaded and the record appended to it
save_memory_npy_load(t, e) ==
    /\ th[t].pc = "save"
    /\ LET p == get_mem_path(th[t].uid) IN
       IF Strip(SaveText(th[t])) = EmptyStr \/ ~VecUsable(e)
       THEN Set(t, AfterSave(th[t])) /\ UNCHANGED overlapped
       ELSE /\ Set(t, [th[t] EXCEPT !.pc = "save_open",
                                    !.data = Append(LoadOrEmpty(p), NewRecord(th[t], e.vec))])
            /\ overlapped' = IF Writers(p) # {} THEN overlapped \cup {p} ELSE overlapped
    /\ UNCHANGED <<fs, sess, now, turns, log, rq, tr, users, sv>>

\* path.open("w"): the file is created or truncated
save_memory_npy_open(t) ==
    /\ th[t].pc = "save_open"
    /\ fs' = WriteFile(get_mem_path(th[t].uid), PartialFile)
    /\ Set(t, [th[t] EXCEPT !.pc = "save_dump"])
    /\ UNCHANGED <<sess, now, turns, log, overlapped, rq, tr, users, sv>>

\* json.dump(data, file): the document is written from offset 0.  When
\* another writer has written since this one truncated the file, what is left
\* is this document or, if the other was longer, a mix of the two
save_memory_npy_dump(t) ==
    /\ th[t].pc = "save_dump"
    /\ LET p == get_mem_path(th[t].uid) IN
       \E c \in {JsonFile(th[t].data)} \cup
                (IF fs[p].kind = "partial" THEN {} ELSE {GarbledFile}) :
          /\ fs' = WriteFile(p, c)
          /\ log' = IF c.kind = "json"
                    THEN Append(log, [uid |-> th[t].uid, rec |-> th[t].data[Len(th[t].data)]])
                    ELSE log
          /\ Set(t, [AfterSave(th[t]) EXCEPT !.wrote = @ + 1])
    /\ UNCHANGED <<sess, now, turns, overlapped, rq, tr, users, sv>>

\* safe_json(txt) finds no {...} in a reply without braces: obj = {}
api_chat_respond(t) ==
    /\ th[t].pc = "respond"
    /\ Set(t, [th[t] EXCEPT !.pc = "done",
                            !.resp = [status |-> 200, error |-> "", emotion |-> "neutral",
                                      reply |-> Strip(th[t].txt)]])
    /\ UNCHANGED <<fs, sess, now, turns, log, overlapped, rq, tr, users, sv>>

\* the response is sent; the thread takes the next request
api_chat_return(t) ==
    /\ th[t].pc = "done"
    /\ Set(t, Idle)
    /\ UNCHANGED <<fs, sess, now, turns, log, overlapped, rq, tr, users, sv>>

\* a session directory as a past /api/save left it: one transcript, saved
\* at BaseNow, whose three assistant turns are tagged sadness
SadTurn == [role |-> "assistant", text |-> <<"r">>, has_emotion |-> TRUE, emotion |-> "sadness"]
SessionsAtStart ==
    [d \in {<<"a">>} |->
        [f \in {<<"s", "1", ".json">>} |->
            [has_updated |-> TRUE, updated |-> BaseNow, chat |-> <<SadTurn, SadTurn, SadTurn>>]]]

NoRetrieve == [phase |-> "none", q |-> NoneVec, top_k |-> 0, out |-> EmptyStr]
NoTrend == [phase |-> "none", order |-> << >>, out |-> NoHint]

\* no /api/save request in progress and an empty session directory
SaveIdle == [pc |-> "idle", sid |-> EmptyStr, chat |-> << >>, status |-> 0, ino |-> 0]
NoSave ==
    [names |-> << >>, inodes |-> << >>, th |-> [t \in Threads |-> SaveIdle],
     saves |-> 0, seen |-> {}]

\* the store after the accounts were registered by /api/register and one
\* transcript was saved by /api/save
Init ==
    /\ fs = << >>
    /\ sess = SessionsAtStart
    /\ now = BaseNow
    /\ th = [t \in Threads |-> Idle]
    /\ turns = 0
    /\ log = << >>
    /\ overlapped = {}
    /\ rq = NoRetrieve
    /\ tr = NoTrend
    /\ users = UserIds
    /\ sv = NoSave

Next ==
    \/ \E t \in Threads, uid \in UserIds, m \in Messages : api_chat_begin(t, uid, m)
    \/ \E t \in Threads : api_chat_trend(t)
    \/ \E t \in Threads : find_relevant_exists(t)
    \/ \E t \in Threads, e \in EmbedResults : find_relevant_rank(t, e)
    \/ \E t \in Threads, g \in GenResults : api_chat_generate(t, g)
    \/ \E t \in Threads, e \in EmbedResults : save_memory_npy_load(t, e)
    \/ \E t \in Threads : save_memory_npy_open(t)
    \/ \E t \in Threads : save_memory_npy_dump(t)
    \/ \E t \in Threads : api_chat_respond(t)
    \/ \E t \in Threads : api_chat_return(t)

Spec == Init /\ [][Next]_vars

----------------------------------------------------------------------------
(* SpecRetrieve: find_relevant_npy on every collection of at most          *)
(* MaxRecords records.  The vectors have components in {-1, 0, 1}: over    *)
(* them the floating-point similarities are ordered, and tie, as the exact *)
(* ones do.                                                                *)

\* find_relevant_npy(user_id, query, top_k), e being what
\* get_embedding(query) returns
find_relevant_npy(user_id, e, top_k) ==
    IF ~Exists(get_mem_path(user_id)) THEN EmptyStr
    ELSE find_relevant_load(get_mem_path(user_id), e, top_k)

StoredVectors == {<<1, 0>>, <<0, 1>>, <<1, 1>>, <<-1, 0>>, <<0, 0>>, <<1>>}
QueryResults ==
    {NoneVec, SomeVec(<< >>), SomeVec(<<1, 0>>), SomeVec(<<1, 1>>), SomeVec(<<0, 0>>)}
TopKs == 0..TOP_K

\* the text of the i-th record appended: texts differ, so a line of the
\* result names its record
Digits == <<"1", "2", "3", "4", "5", "6">>
RecordAt(i, v) == [ts |-> BaseNow, role |-> "user", text |-> <<Digits[i]>>, vector |-> v]

RetrieveUser == <<"a">>

InitRetrieve ==
    /\ \E n \in 0..MaxRecords : \E vs \in [1..n -> StoredVectors] :
          fs = (get_mem_path(RetrieveUser) :> JsonFile([i \in 1..n |-> RecordAt(i, vs[i])]))
    /\ \E q \in QueryResults, k \in TopKs :
          rq = [phase |-> "input", q |-> q, top_k |-> k, out |-> EmptyStr]
    /\ sess = << >>
    /\ now = BaseNow
    /\ th = [t \in Threads |-> Idle]
    /\ turns = 0
    /\ log = << >>
    /\ overlapped = {}
    /\ tr = NoTrend
    /\ users = {RetrieveUser}
    /\ sv = NoSave

retrieve_call ==
    /\ rq.phase = "input"
    /\ rq' = [rq EXCEPT !.phase = "done",
                        !.out = find_relevant_npy(RetrieveUser, rq.q, rq.top_k)]
    /\ UNCHANGED <<fs, sess, now, th, turns, log, overlapped, tr, users, sv>>

SpecRetrieve == InitRetrieve /\ [][retrieve_call]_vars

----------------------------------------------------------------------------
(* SpecTrend: analyze_user_trends on a session directory of one or two     *)
(* transcripts: one of any at most MaxChatLen turns, saved now or exactly  *)
(* TREND_DAYS days ago, and possibly a one-turn transcript saved around    *)
(* the window start, or now, or one without an "updated" field (a file not *)
(* written by /api/save).                                                  *)

Turn(role, has, e) ==
    [role |-> role, text |-> <<"r">>, has_emotion |-> has, emotion |-> e]
TurnKinds ==
    {Turn("user", TRUE, "sadness"), Turn("assistant", FALSE, ""),
     Turn("assistant", TRUE, "neutral"), Turn("assistant", TRUE, "sadness"),
     Turn("assistant", TRUE, "joy"), Turn("assistant", TRUE, "anger")}

Chats == UNION {[1..k -> TurnKinds] : k \in 0..MaxChatLen}

Doc(has, t, chat) == [has_updated |-> has, updated |-> t, chat |-> chat]

WindowStart == BaseNow - TREND_DAYS * SECONDS_PER_DAY

MainDocs == {Doc(TRUE, t, c) : t \in {WindowStart, BaseNow}, c \in Chats}
SideDocs ==
    {Doc(TRUE, t, <<k>>) :
        t \in {WindowStart - 1, WindowStart, WindowStart + 1, BaseNow},
        k \in {Turn("assistant", TRUE, "sadness"), Turn("assistant", TRUE, "anger")}}
    \cup {Doc(FALSE, 0, <<Turn("assistant", TRUE, "sadness")>>)}

TrendUser == <<"a">>
MainFile == <<"s", "1", ".json">>
SideFile == <<"s", "2", ".json">>

InitTrend ==
    /\ \E m \in MainDocs :
          \/ sess = (Sanitize(TrendUser) :> (MainFile :> m))
          \/ \E d \in SideDocs :
                sess = (Sanitize(TrendUser) :> ((MainFile :> m) @@ (SideFile :> d)))
    /\ now = BaseNow
    /\ tr = [phase |-> "input", order |-> << >>, out |-> NoHint]
    /\ fs = << >>
    /\ th = [t \in Threads |-> Idle]
    /\ turns = 0
    /\ log = << >>
    /\ overlapped = {}
    /\ rq = NoRetrieve
    /\ users = {TrendUser}
    /\ sv = NoSave

trend_call ==
    /\ tr.phase = "input"
    /\ \E order \in Orders(DOMAIN sess[Sanitize(TrendUser)]) :
          tr' = [phase |-> "done", order |-> order,
                 out |-> analyze_user_trends(sess, now, TrendUser, TREND_DAYS, order)]
    /\ UNCHANGED <<fs, sess, now, th, turns, log, overlapped, rq, users, sv>>

SpecTrend == InitTrend /\ [][trend_call]_vars

----------------------------------------------------------------------------
(* SpecCosine: cosine_sim on every pair of vectors of at most MaxDim       *)
(* components in {-1, 0, 1}, and the score find_relevant_npy gives a       *)
(* stored record with the second vector for a query with the first.        *)

CosineVectors == UNION {[1..n -> {-1, 0, 1}] : n \in 0..MaxDim}

InitCosine ==
    /\ \E v1 \in CosineVectors, v2 \in CosineVectors :
          rq = [phase |-> "input", v1 |-> v1, v2 |-> v2, sim |-> ZeroSim,
                raised |-> FALSE, scores |-> << >>]
    /\ fs = << >>
    /\ sess = << >>
    /\ now = BaseNow
    /\ th = [t \in Threads |-> Idle]
    /\ turns = 0
    /\ log = << >>
    /\ overlapped = {}
    /\ tr = NoTrend
    /\ users = {}
    /\ sv = NoSave

cosine_call ==
    /\ rq.phase = "input"
    /\ rq' = [rq EXCEPT !.phase = "done",
                        !.sim = cosine_sim(rq.v1, rq.v2),
                        !.raised = cosine_sim_raises(rq.v1, rq.v2),
                        !.scores = Scores(rq.v1, <<RecordAt(1, rq.v2)>>)]
    /\ UNCHANGED <<fs, sess, now, th, turns, log, overlapped, tr, users, sv>>

SpecCosine == InitCosine /\ [][cosine_call]_vars

----------------------------------------------------------------------------
(* SpecTurns: the chat turns of one user, run by the two request threads.  *)

TurnUsers == {<<"a">>}

NextTurns ==
    \/ \E t \in Threads, uid \in TurnUsers, m \in Messages : api_chat_begin(t, uid, m)
    \/ \E t \in Threads : api_chat_trend(t)
    \/ \E t \in Threads : find_relevant_exists(t)
    \/ \E t \in Threads, e \in EmbedResults : find_relevant_rank(t, e)
    \/ \E t \in Threads, g \in GenResults : api_chat_generate(t, g)
    \/ \E t \in Threads, e \in EmbedResults : save_memory_npy_load(t, e)
    \/ \E t \in Threads : save_memory_npy_open(t)
    \/ \E t \in Threads : save_memory_npy_dump(t)
    \/ \E t \in Threads : api_chat_respond(t)
    \/ \E t \in Threads : api_chat_return(t)

SpecTurns == Init /\ [][NextTurns]_vars

----------------------------------------------------------------------------
(* SpecBackend: the chat pipeline of Spec with an embedding backend that   *)
(* answers anything: no vector, vectors of two lengths, a list of strings. *)

BackendUsers == {<<"a">>}

NextBackend ==
    \/ \E t \in Threads, uid \in BackendUsers, m \in Messages : api_chat_begin(t, uid, m)
    \/ \E t \in Threads : api_chat_trend(t)
    \/ \E t \in Threads : find_relevant_exists(t)
    \/ \E t \in Threads, e \in BackendEmbedResults : find_relevant_rank(t, e)
    \/ \E t \in Threads, g \in GenResults : api_chat_generate(t, g)
    \/ \E t \in Threads, e \in BackendEmbedResults : save_memory_npy_load(t, e)
    \/ \E t \in Threads : save_memory_npy_open(t)
    \/ \E t \in Threads : save_memory_npy_dump(t)
    \/ \E t \in Threads : api_chat_respond(t)
    \/ \E t \in Threads : api_chat_return(t)

SpecBackend == Init /\ [][NextBackend]_vars

----------------------------------------------------------------------------
(* SpecAccounts: registration, session saves and chat turns, from an empty *)
(* data directory.  /api/save is one step here (its write is taken apart   *)
(* in SpecSave).                                                           *)

\* the "username", "displayName" and "password" fields of a registration
RegisterNames == {EmptyStr, <<"a">>, <<".", ".", "/", "a">>}
RegisterFields == {EmptyStr, <<"x">>}

\* api_register: 400 unless all three fields are non-empty, 409 when the
\* username is taken, else the username is added to users.json as given
api_register(u, dn, p) ==
    /\ IF u = EmptyStr \/ dn = EmptyStr \/ p = EmptyStr THEN UNCHANGED users
       ELSE IF u \in users THEN UNCHANGED users
       ELSE users' = users \cup {u}
    /\ UNCHANGED <<fs, sess, now, th, turns, log, overlapped, rq, tr, sv>>

\* the "sid" and "chat" fields of a save request
SaveSids == {<<"0">>}
SaveChats == {<<SadTurn, SadTurn, SadTurn>>}

\* session_path(sid): the file name inside the user's session directory
SessionFile(sid) == Sanitize(sid) \o <<".json">>

\* the document api_save writes; by (history) is the account that saved it
SavedDoc(uid, chat) == [has_updated |-> TRUE, updated |-> now, chat |-> chat, by |-> uid]

\* api_save of a logged-in user: the transcript replaces the file of that
\* sid in the directory SESS_DIR / sanitized username
api_save(uid, sid, chat) ==
    /\ uid \in users
    /\ LET d == Sanitize(uid)
           old == IF d \in DOMAIN sess THEN sess[d] ELSE << >>
           new == [f \in DOMAIN old \cup {SessionFile(sid)} |->
                      IF f = SessionFile(sid) THEN SavedDoc(uid, chat) ELSE old[f]]
       IN sess' = [x \in DOMAIN sess \cup {d} |-> IF x = d THEN new ELSE sess[x]]
    /\ UNCHANGED <<fs, now, th, turns, log, overlapped, rq, tr, users, sv>>

InitAccounts ==
    /\ fs = << >>
    /\ sess = << >>
    /\ now = BaseNow
    /\ th = [t \in Threads |-> Idle]
    /\ turns = 0
    /\ log = << >>
    /\ overlapped = {}
    /\ rq = NoRetrieve
    /\ tr = NoTrend
    /\ users = {}
    /\ sv = NoSave

NextAccounts ==
    \/ \E u \in RegisterNames, dn \in RegisterFields, p \in RegisterFields : api_register(u, dn, p)
    \/ \E uid \in UserIds, sid \in SaveSids, chat \in SaveChats : api_save(uid, sid, chat)
    \/ Next

SpecAccounts == InitAccounts /\ [][NextAccounts]_vars

----------------------------------------------------------------------------
(* SpecSave: /api/save and /api/load of one logged-in user, run by two     *)
(* request threads, one file-system call per step.  sv.names is the        *)
(* session directory of the user (file name -> file), sv.inodes the        *)
(* contents of the files ever created: a writer holds the file it opened,  *)
(* under whatever name that file is reachable later.                       *)

TITLE_LEN == 60

\* the logged-in user of the requests
SaveUser == <<"a">>

\* the "sid" and "chat" fields of the save requests
SaveRequestSids == {<<"0">>, <<"a">>}
SaveRequestChats == {<< >>, <<SadTurn, SadTurn, SadTurn>>}

\* p.with_suffix(".tmp") for p = session_path(sid)
TmpFile(sid) == Sanitize(sid) \o <<".tmp">>

\* the "title" of the document: the first turn's text cut at 60, or "New Chat"
TitleOf(chat) ==
    IF chat = << >> THEN <<"New Chat">>
    ELSE SubSeq(chat[1].text, 1, IF Len(chat[1].text) < TITLE_LEN THEN Len(chat[1].text) ELSE TITLE_LEN)

\* the document api_save hands to write_json
SessionDoc(sid, chat) == [sid |-> sid, title |-> TitleOf(chat), chat |-> chat, updated |-> now]
NoDoc == [sid |-> EmptyStr, title |-> EmptyStr, chat |-> << >>, updated |-> 0]

\* contents of a session file: a complete document, a strict prefix of one
\* (opened with "w", dump not finished), or a mix of two documents
CompleteDoc(d) == [kind |-> "json", doc |-> d]
PartialDoc == [kind |-> "partial", doc |-> NoDoc]
GarbledDoc == [kind |-> "garbled", doc |-> NoDoc]

SetSave(t, r) == [sv.th EXCEPT ![t] = r]

\* api_save up to the call of write_json: sid = ensure_sid(d.get("sid"))
api_save_begin(t, sid, chat) ==
    /\ sv.th[t].pc = "idle"
    /\ SaveUser \in users
    /\ sv.saves < MaxSaves
    /\ sv' = [sv EXCEPT !.saves = @ + 1,
                        !.th = SetSave(t, [SaveIdle EXCEPT !.pc = "open", !.sid = sid, !.chat = chat])]
    /\ UNCHANGED <<fs, sess, now, th, turns, log, overlapped, rq, tr, users>>

\* p.with_suffix(".tmp").open("w"): the temporary file is created, or, when
\* a file of that name exists, that file is truncated
write_json_open(t) ==
    /\ sv.th[t].pc = "open"
    /\ LET tmp == TmpFile(sv.th[t].sid) IN
       IF tmp \in DOMAIN sv.names
       THEN sv' = [sv EXCEPT !.inodes[sv.names[tmp]] = PartialDoc,
                            !.th = SetSave(t, [sv.th[t] EXCEPT !.pc = "dump", !.ino = sv.names[tmp]])]
       ELSE sv' = [sv EXCEPT !.inodes = Append(sv.inodes, PartialDoc),
                            !.names = [f \in DOMAIN sv.names \cup {tmp} |->
                                          IF f = tmp THEN Len(sv.inodes) + 1 ELSE sv.names[f]],
                            !.th = SetSave(t, [sv.th[t] EXCEPT !.pc = "dump",
                                                              !.ino = Len(sv.inodes) + 1])]
    /\ UNCHANGED <<fs, sess, now, th, turns, log, overlapped, rq, tr, users>>

\* json.dump(o, file): the document is written from offset 0 into the file
\* this thread opened.  When another writer has written into that file since
\* it was last truncated, what is left is this document or, if the other
\* was longer, a mix of the two
write_json_dump(t) ==
    /\ sv.th[t].pc = "dump"
    /\ LET i == sv.th[t].ino IN
       \E c \in {CompleteDoc(SessionDoc(sv.th[t].sid, sv.th[t].chat))} \cup
                (IF sv.inodes[i].kind = "partial" THEN {} ELSE {GarbledDoc}) :
          sv' = [sv EXCEPT !.inodes[i] = c,
                           !.th = SetSave(t, [sv.th[t] EXCEPT !.pc = "replace"])]
    /\ UNCHANGED <<fs, sess, now, th, turns, log, overlapped, rq, tr, users>>

\* p.with_suffix(".tmp").replace(p): the file named tmp gets the name p; with
\* no file named tmp, FileNotFoundError ends the request with a 500 response
write_json_replace(t) ==
    /\ sv.th[t].pc = "replace"
    /\ LET tmp == TmpFile(sv.th[t].sid)
           p == SessionFile(sv.th[t].sid)
       IN IF tmp \in DOMAIN sv.names
          THEN sv' = [sv EXCEPT !.names = [f \in (DOMAIN sv.names \cup {p}) \ {tmp} |->
                                              IF f = p THEN sv.names[tmp] ELSE sv.names[f]],
                               !.th = SetSave(t, [sv.th[t] EXCEPT !.pc = "done", !.status = 200])]
          ELSE sv' = [sv EXCEPT !.th = SetSave(t, [sv.th[t] EXCEPT !.pc = "done", !.status = 500])]
    /\ UNCHANGED <<fs, sess, now, th, turns, log, overlapped, rq, tr, users>>

\* the response is sent; the thread takes the next request
api_save_return(t) ==
    /\ sv.th[t].pc = "done"
    /\ sv' = [sv EXCEPT !.th = SetSave(t, SaveIdle)]
    /\ UNCHANGED <<fs, sess, now, th, turns, log, overlapped, rq, tr, users>>

\* read_json(session_path(sid)) in api_load, and json.load in the scan of
\* analyze_user_trends: the content of the file is read; sv.seen (history)
\* keeps what readers were given
read_json(sid) ==
    /\ SessionFile(sid) \in DOMAIN sv.names
    /\ sv' = [sv EXCEPT !.seen = @ \cup {sv.inodes[sv.names[SessionFile(sid)]]}]
    /\ UNCHANGED <<fs, sess, now, th, turns, log, overlapped, rq, tr, users>>

NextSave ==
    \/ \E t \in Threads, sid \in SaveRequestSids, chat \in SaveRequestChats : api_save_begin(t, sid, chat)
    \/ \E t \in Threads : write_json_open(t)
    \/ \E t \in Threads : write_json_dump(t)
    \/ \E t \in Threads : write_json_replace(t)
    \/ \E t \in Threads : api_save_return(t)
    \/ \E sid \in SaveRequestSids : read_json(sid)

\* the user is registered and the session directory is empty
InitSave ==
    /\ fs = << >>
    /\ sess = << >>
    /\ now = BaseNow
    /\ th = [t \in Threads |-> Idle]
    /\ turns = 0
    /\ log = << >>
    /\ overlapped = {}
    /\ rq = NoRetrieve
    /\ tr = NoTrend
    /\ users = {SaveUser}
    /\ sv = NoSave

SpecSave == InitSave /\ [][NextSave]_vars

----------------------------------------------------------------------------
(* Properties of the memory store, checked under Spec *)

\* a user identifier with every character other than a letter, digit,
\* hyphen or underscore removed
SafeForm(uid) == SelectSeq(uid, LAMBDA ch : ch \in WordChars)

\* the records whose append completed under an identifier of safe form sf
RecordsUnder(sf) == {log[i].rec : i \in {j \in 1..Len(log) : SafeForm(log[j].uid) = sf}}

\* the texts of a context block
BlockTexts(ctx) == {Tail(ctx[i]) : i \in 2..Len(ctx)}

\* p is a file directly inside the memory directory
InMemDir(p) == Len(p) = Len(MEM_DIR) + 1 /\ SubSeq(p, 1, Len(MEM_DIR)) = MEM_DIR

\* the safe form and the file of each identifier
SafeFormOf == [u \in UserIds |-> SafeForm(u)]
PartitionOf == [u \in UserIds |-> get_mem_path(u)]

\* identifiers of equal safe form, and no others, resolve to one file, and
\* every such file lies directly inside the memory directory
PartitionsSeparate ==
    \A u \in UserIds :
        /\ InMemDir(PartitionOf[u])
        /\ \A v \in UserIds : (SafeFormOf[u] = SafeFormOf[v]) <=> (PartitionOf[u] = PartitionOf[v])

\* C1: identifiers of different safe form never share a partition: what a
\* load or a retrieval under an identifier returns was appended under an
\* identifier of the same safe form; identifiers of equal safe form resolve
\* to one file, and every file lies directly inside the memory directory.
C1_UserIsolation ==
    /\ PartitionsSeparate
    /\ \A u \in UserIds :
          PartitionOf[u] \in DOMAIN fs =>
              LET own == RecordsUnder(SafeFormOf[u])
                  held == fs[PartitionOf[u]].data
              IN \A i \in 1..Len(held) : held[i] \in own
    /\ \A p \in DOMAIN fs : InMemDir(p)
    /\ \A t \in Threads :
          th[t].ctx # EmptyStr =>
              BlockTexts(th[t].ctx) \subseteq {r.text : r \in RecordsUnder(SafeForm(th[t].uid))}

\* a retrieval under "../a" returned what was appended under "a", and the
\* partition of "b" holds nothing
C1_Witness ==
    \E t \in Threads :
        /\ th[t].uid = <<".", ".", "/", "a">>
        /\ th[t].pc = "generate"
        /\ th[t].ctx # EmptyStr
        /\ \E i \in 1..Len(log) : log[i].uid = <<"a">>
        /\ get_mem_path(<<"b">>) \notin DOMAIN fs

\* the embedding call failed or returned no vector
EmbeddingMissing(e) == e.none \/ e.vec = << >>

\* C2: a save_memory_npy call whose text is blank, or whose embedding is
\* missing, returns without changing any file; and no stored record ever
\* has an empty vector or a blank text.
C2_FailedAppendIsNoOp ==
    /\ [][\A t \in Threads, e \in EmbedResults :
            (/\ th[t].pc = "save"
             /\ save_memory_npy_load(t, e)
             /\ Strip(SaveText(th[t])) = EmptyStr \/ EmbeddingMissing(e))
            => (/\ fs' = fs
                /\ log' = log
                /\ th'[t] = AfterSave(th[t]))]_vars
    /\ [](\A p \in DOMAIN fs : \A i \in 1..Len(fs[p].data) :
            /\ fs[p].data[i].vector # << >>
            /\ Strip(fs[p].data[i].text) # EmptyStr)

\* one turn saved its message and skipped its blank reply; another, whose
\* embeddings were missing, saved nothing
C2_Witness ==
    \E t, u \in Threads :
        /\ th[t].pc = "respond" /\ th[t].wrote = 1 /\ Strip(th[t].txt) = EmptyStr
        /\ th[u].pc = "respond" /\ th[u].wrote = 0 /\ Strip(th[u].txt) # EmptyStr

\* C3: a turn whose generation call failed ends with the backend-failed
\* response and has written no memory record.
C3_FailedTurnWritesNothing ==
    \A t \in Threads :
        th[t].failed =>
            /\ th[t].pc = "done"
            /\ th[t].resp.status = 500
            /\ th[t].resp.error = "backend-failed"
            /\ th[t].wrote = 0

\* a turn failed at generation while the user's collection holds a record
C3_Witness ==
    \E t \in Threads :
        /\ th[t].failed
        /\ th[t].pc = "done"
        /\ get_mem_path(th[t].uid) \in DOMAIN fs
        /\ fs[get_mem_path(th[t].uid)].kind = "json"

\* the records whose append to file p completed, oldest first
Committed(p) ==
    LET idx == SelectSeq([i \in 1..Len(log) |-> i],
                         LAMBDA i : get_mem_path(log[i].uid) = p)
    IN [k \in 1..Len(idx) |-> log[idx[k]].rec]

\* C4 (as claimed): every record once persisted stays in the collection,
\* unchanged and in order: a collection is the sequence of the records
\* appended to it.
C4_PersistedRecordsKept ==
    \A p \in DOMAIN fs : fs[p].kind = "json" => fs[p].data = Committed(p)

\* C5: appends to a collection that do not overlap lose nothing (the witness
\* is the lost update of two that do).
C5_NonOverlappingAppendsKept ==
    \A p \in DOMAIN fs :
        (p \notin overlapped /\ fs[p].kind = "json") => fs[p].data = Committed(p)

\* two appends to one collection have completed, each with a vector, and the
\* collection holds one record
C5_LostUpdate ==
    \E p \in DOMAIN fs :
        /\ Writers(p) = {}
        /\ fs[p].kind = "json"
        /\ Len(Committed(p)) = 2
        /\ Len(fs[p].data) = 1
        /\ \A i \in 1..2 : Committed(p)[i].vector # << >>

\* C7: find_relevant_npy returns "" and api_chat goes on to the generation
\* call, with no file changed, when the user's file does not exist, does not
\* parse, holds no record, or the query embedding is missing.
C7_RetrieveDegradesToEmpty ==
    [][\A t \in Threads :
         LET p == get_mem_path(th[t].uid) IN
         /\ (th[t].pc = "rag_exists" /\ th'[t] # th[t] /\ p \notin DOMAIN fs)
            => (th'[t].ctx = EmptyStr /\ th'[t].pc = "generate" /\ fs' = fs)
         /\ \A e \in EmbedResults :
              (/\ th[t].pc = "rag_load"
               /\ find_relevant_rank(t, e)
               /\ \/ EmbeddingMissing(e)
                  \/ fs[p].kind # "json"
                  \/ fs[p].data = << >>)
              => (th'[t].ctx = EmptyStr /\ th'[t].pc = "generate" /\ fs' = fs)]_vars

\* a retrieval came back empty on a file that exists and does not parse
C7_Witness ==
    \E t \in Threads :
        /\ th[t].pc = "generate"
        /\ th[t].ctx = EmptyStr
        /\ get_mem_path(th[t].uid) \in DOMAIN fs
        /\ fs[get_mem_path(th[t].uid)].kind # "json"

----------------------------------------------------------------------------
(* Properties of find_relevant_npy, checked under SpecRetrieve *)

RqData == fs[get_mem_path(RetrieveUser)].data
RqSim(i) == cosine_sim(rq.q.vec, RqData[i].vector)
Min(a, b) == IF a < b THEN a ELSE b

\* the record a result line names
LineIndex(line) == CHOOSE i \in 1..Len(Digits) : <<"- ", Digits[i]>> = line

\* C6: with a query vector, the result holds min(top_k, n) records, in
\* non-increasing order of similarity, those of equal similarity in append
\* order, and no record left out is more similar than one returned.
C6_RetrieveRanksTopK ==
    (rq.phase = "done" /\ ~EmbeddingMissing(rq.q)) =>
        LET k == Min(rq.top_k, Len(RqData)) IN
        IF k = 0 THEN rq.out = EmptyStr
        ELSE /\ Len(rq.out) = k + 1
             /\ rq.out[1] = <<"[Relevant Context]:">>
             /\ \A j \in 1..k : \E i \in 1..Len(RqData) : rq.out[j + 1] = <<"- ">> \o RqData[i].text
             /\ LET I == [j \in 1..k |-> LineIndex(rq.out[j + 1])] IN
                /\ \A j \in 1..(k - 1) :
                      /\ ~SimLess(RqSim(I[j]), RqSim(I[j + 1]))
                      /\ SimEq(RqSim(I[j]), RqSim(I[j + 1])) => I[j] < I[j + 1]
                /\ \A i \in 1..Len(RqData) :
                      (\A j \in 1..k : I[j] # i) =>
                          \A j \in 1..k : ~SimLess(RqSim(I[j]), RqSim(i))

\* three of four records were returned, two of them tied, one less similar
\* than the first
C6_Witness ==
    /\ rq.phase = "done"
    /\ ~EmbeddingMissing(rq.q)
    /\ Len(RqData) = 4
    /\ Len(rq.out) = 4
    /\ \E i, j \in 1..4 : i < j /\ SimEq(RqSim(i), RqSim(j)) /\ RqData[i].vector # RqData[j].vector
    /\ SimLess(RqSim(LineIndex(rq.out[4])), RqSim(LineIndex(rq.out[2])))
    /\ \E i \in 1..4 : SimLess(RqSim(i), RqSim(LineIndex(rq.out[4])))

----------------------------------------------------------------------------
(* Properties of analyze_user_trends, checked under SpecTrend *)

TrFiles == sess[Sanitize(TrendUser)]

\* the turns of the transcripts W that carry a label other than "neutral"
\* and are the assistant's
LabelledTurns(W) ==
    {x \in UNION {{<<f, j>> : j \in 1..Len(TrFiles[f].chat)} : f \in W} :
        LET m == TrFiles[x[1]].chat[x[2]] IN
        m.role = "assistant" /\ m.has_emotion /\ m.emotion # "neutral"}
LabelOf(x) == TrFiles[x[1]].chat[x[2]].emotion
CountOf(W, l) == Cardinality({x \in LabelledTurns(W) : LabelOf(x) = l})
Tot(W) == Cardinality(LabelledTurns(W))
LabelsSeen(W) == {LabelOf(x) : x \in LabelledTurns(W)}
MaxCnt(W) ==
    IF LabelsSeen(W) = {} THEN 0
    ELSE LET l == CHOOSE a \in LabelsSeen(W) : \A b \in LabelsSeen(W) : CountOf(W, b) <= CountOf(W, a)
         IN CountOf(W, l)

\* the transcripts the analyzer collects
Collected == {f \in DOMAIN TrFiles : InWindow(TrFiles[f], Cutoff(now, TREND_DAYS))}

\* C8: a hint is emitted if and only if the tally of the collected
\* transcripts has at least 3 entries and its greatest count is more than
\* 0.4 of them.
C8_HintIffThreshold ==
    tr.phase = "done" =>
        (tr.out.hint <=> (Tot(Collected) >= 3 /\ 10 * MaxCnt(Collected) > 4 * Tot(Collected)))

\* the ratio is exactly 0.4 (2 of 5) and no hint is emitted
C8_Witness ==
    /\ tr.phase = "done"
    /\ ~tr.out.hint
    /\ Tot(Collected) = 5
    /\ MaxCnt(Collected) = 2

\* C9: a hint names a label of greatest count, that count and the total,
\* and has the intervention line exactly when the label is one of sadness,
\* anger, fear, anxiety.
C9_HintContent ==
    (tr.phase = "done" /\ tr.out.hint) =>
        \E l \in LabelsSeen(Collected) :
            /\ CountOf(Collected, l) = MaxCnt(Collected)
            /\ tr.out.mood = Upper(l)
            /\ tr.out.c = CountOf(Collected, l)
            /\ tr.out.tot = Tot(Collected)
            /\ tr.out.intervention <=> (l \in {"sadness", "anger", "fear", "anxiety"})

\* the tally {sadness: 3, joy: 1}: the hint names SADNESS, 3 and 4 and has
\* the intervention line
C9_Witness ==
    /\ tr.phase = "done"
    /\ tr.out.hint
    /\ CountOf(Collected, "sadness") = 3
    /\ CountOf(Collected, "joy") = 1
    /\ tr.out = [hint |-> TRUE, days |-> 5, mood |-> "SADNESS", c |-> 3, tot |-> 4,
                 intervention |-> TRUE]

\* what analyze_user_trends returned is what the tally of transcripts W gives
TallyIsOf(W) ==
    /\ tr.out.hint <=> (Tot(W) >= 3 /\ 10 * MaxCnt(W) > 4 * Tot(W))
    /\ tr.out.hint => (tr.out.tot = Tot(W) /\ tr.out.c = MaxCnt(W))

\* C10 (as claimed): the tally is that of the transcripts with
\* now - 5 * 86400 <= updated <= now.
C10_ClosedWindow ==
    tr.phase = "done" =>
        TallyIsOf({f \in DOMAIN TrFiles :
                      /\ TrFiles[f].has_updated
                      /\ now - 5 * 86400 <= TrFiles[f].updated
                      /\ TrFiles[f].updated <= now})

\* C10 (amended): the tally is that of the transcripts with
\* updated > now - 5 * 86400, a missing "updated" counting as 0.
C10_OpenWindow ==
    tr.phase = "done" =>
        TallyIsOf({f \in DOMAIN TrFiles :
                      (IF TrFiles[f].has_updated THEN TrFiles[f].updated ELSE 0)
                          > now - 5 * 86400})

\* a transcript saved exactly five days ago was left out of a tally that
\* led to a hint
C10_Witness ==
    /\ tr.phase = "done"
    /\ tr.out.hint
    /\ \E f \in DOMAIN TrFiles :
          /\ TrFiles[f].has_updated
          /\ TrFiles[f].updated = now - 5 * 86400
          /\ LabelledTurns({f}) # {}
    /\ tr.out.tot < Tot(DOMAIN TrFiles)

----------------------------------------------------------------------------
(* Determinism of the trend hint (SpecTrend) *)

\* C18 (as claimed): the value analyze_user_trends returned is the value it
\* returns for every order in which the session files can be listed.
C18_HintIndependentOfOrder ==
    tr.phase = "done" =>
        \A o \in Orders(DOMAIN sess[Sanitize(TrendUser)]) :
            analyze_user_trends(sess, now, TrendUser, TREND_DAYS, o) = tr.out

----------------------------------------------------------------------------
(* cosine_sim (SpecCosine) *)

\* every component of v is zero
ZeroMagnitude(v) == \A i \in 1..Len(v) : v[i] = 0

\* C17: for an empty vector, a vector of zero magnitude, or two vectors of
\* different lengths, cosine_sim returns exactly 0 and does not raise, and
\* the record is scored 0 by the retrieval.
C17_CosineZeroCases ==
    (/\ rq.phase = "done"
     /\ \/ rq.v1 = << >> \/ rq.v2 = << >>
        \/ ZeroMagnitude(rq.v1) \/ ZeroMagnitude(rq.v2)
        \/ Len(rq.v1) # Len(rq.v2))
    => (/\ rq.sim.num = 0
        /\ rq.sim = ZeroSim
        /\ ~rq.raised
        /\ rq.scores[1].score.num = 0)

\* two vectors of different lengths, neither of zero magnitude, whose
\* common components agree, were given similarity 0
C17_Witness ==
    /\ rq.phase = "done"
    /\ rq.v1 = <<1>>
    /\ rq.v2 = <<1, 1>>
    /\ rq.sim.num = 0

----------------------------------------------------------------------------
(* Session files (SpecSave) *)

\* C15 (as claimed): whatever the interleaving of saves and reads, a read
\* of a session file is given the complete document of one save.
C15_ReadersSeeCompleteDocs ==
    \A c \in sv.seen : c.kind = "json"

----------------------------------------------------------------------------
(* Order of the steps of a chat turn (SpecTurns) *)

\* the step a thread inside a turn does next
StepOf(l) ==
    CASE l.pc = "trend" -> "trend"
      [] l.pc \in {"rag_exists", "rag_load"} -> "retrieve"
      [] l.pc = "generate" -> "generate"
      [] l.pc \in {"save", "save_open", "save_dump"} /\ l.saving = "user" -> "append_user"
      [] l.pc \in {"save", "save_open", "save_dump"} -> "append_assistant"
      [] OTHER -> "none"

InTurn(l) == StepOf(l) # "none"

\* the place of a step in the order the code runs them
CodeRank(step) ==
    CASE step = "trend" -> 1
      [] step = "retrieve" -> 2
      [] step = "generate" -> 3
      [] step = "append_user" -> 4
      [] OTHER -> 5

\* the place of a step in the order with retrieval before trend analysis
ClaimedRank(step) ==
    CASE step = "retrieve" -> 1
      [] step = "trend" -> 2
      [] step = "generate" -> 3
      [] step = "append_user" -> 4
      [] OTHER -> 5

\* no record written, and no reply held, before the generation call returned
NoAppendBeforeReply ==
    \A t \in Threads :
        /\ StepOf(th[t]) \in {"trend", "retrieve", "generate"} =>
              (th[t].wrote = 0 /\ th[t].txt = EmptyStr)
        /\ StepOf(th[t]) \in {"append_user", "append_assistant"} => th[t].txt # EmptyStr
        /\ StepOf(th[t]) = "append_user" => th[t].wrote = 0
        /\ th[t].wrote <= 2

\* C12 (as claimed): the steps of a turn run in the order retrieval (with
\* the embedding of the query), trend analysis, generation, append of the
\* user's message, append of the reply; no append before the reply.
C12_ClaimedOrder ==
    /\ [][\A t \in Threads :
            (InTurn(th[t]) /\ InTurn(th'[t])) =>
                ClaimedRank(StepOf(th[t])) <= ClaimedRank(StepOf(th'[t]))]_vars
    /\ []NoAppendBeforeReply

\* C12 (amended): a turn starts with the trend analysis, which is followed
\* by the retrieval (the query is embedded inside it, when the user's file
\* exists), then the generation call, then the append of the user's message,
\* then the append of the reply; no step is skipped or repeated out of
\* order, and no append happens before the generation call returned a reply.
C12_CodeOrder ==
    /\ [][\A t \in Threads :
            th'[t] # th[t] =>
                LET a == StepOf(th[t])
                    b == StepOf(th'[t])
                IN /\ (a # "none" /\ b # "none") => CodeRank(a) <= CodeRank(b)
                   /\ (a = "none" /\ b # "none") => b = "trend"
                   /\ a = "trend" => b = "retrieve"
                   /\ a = "retrieve" => (b \in {"retrieve", "generate"} \/ th'[t].pc = "done")
                   /\ a = "generate" => (b = "append_user" \/ th'[t].pc = "done")
                   /\ a = "append_user" => b \in {"append_user", "append_assistant"}
                   /\ a = "append_assistant" =>
                         (b = "append_assistant" \/ th'[t].pc = "respond")]_vars
    /\ []NoAppendBeforeReply

\* a turn that got a trend hint and a retrieved context has written both
\* its records and is about to respond
C12_Witness ==
    \E t \in Threads :
        /\ th[t].pc = "respond"
        /\ th[t].wrote = 2
        /\ th[t].trend.hint
        /\ th[t].ctx # EmptyStr

----------------------------------------------------------------------------
(* Validation of the message (SpecTurns) *)

\* a message of white space only, or of no character
IsBlank(m) == \A i \in 1..Len(m) : m[i] \in Whitespace

\* C13: a chat request whose message is blank is answered 400 "empty" in
\* its first step, which changes no file; the turn never reaches the trend
\* analysis (a session read), the retrieval or the saves (embedding calls,
\* memory writes) or the generation call, and only returns.
C13_BlankMessageRejected ==
    /\ [][\A t \in Threads :
            /\ \A uid \in TurnUsers, m \in Messages :
                  (api_chat_begin(t, uid, m) /\ IsBlank(m)) =>
                      /\ th'[t].pc = "done"
                      /\ th'[t].resp.status = 400
                      /\ th'[t].resp.error = "empty"
                      /\ fs' = fs /\ sess' = sess /\ log' = log
            /\ (th[t].resp.status = 400 /\ th'[t] # th[t]) =>
                  (th'[t] = Idle /\ fs' = fs /\ sess' = sess /\ log' = log)]_vars
    /\ [](\A t \in Threads :
            th[t].resp.status = 400 =>
                /\ th[t].pc = "done"
                /\ IsBlank(th[t].msg)
                /\ th[t].trend = NoHint
                /\ th[t].ctx = EmptyStr
                /\ th[t].txt = EmptyStr
                /\ th[t].wrote = 0
                /\ th[t].data = << >>)

\* a blank message of user "a" was rejected, with no trend read, while
\* another turn of "a" got the trend hint of the saved transcript
C13_Witness ==
    \E t, u \in Threads :
        /\ th[t].uid = <<"a">> /\ th[t].resp.status = 400
        /\ th[u].uid = <<"a">> /\ th[u].trend.hint /\ th[u].pc = "generate"

----------------------------------------------------------------------------
(* The embedding backend (SpecBackend) *)

\* C14 (as claimed): whatever the embedding backend answers, a chat turn
\* fails only when the generation call failed: the retrieval always goes on
\* to the generation call, and a turn whose generation succeeded ends with
\* the reply and no error.
C14_EmbeddingNeverFailsTurn ==
    /\ [][\A t \in Threads :
            (StepOf(th[t]) = "retrieve" /\ th'[t] # th[t]) =>
                StepOf(th'[t]) \in {"retrieve", "generate"}]_vars
    /\ [](\A t \in Threads :
            th[t].pc = "done" =>
                \/ th[t].resp.status = 400
                \/ th[t].resp.status = 500 /\ th[t].failed
                \/ th[t].resp.status = 200 /\ ~th[t].failed)

\* C16 (as claimed): the vectors of all persisted records have one length,
\* the dimension of the deployment.
C16_OneDimension ==
    \A p \in DOMAIN fs, q \in DOMAIN fs :
        \A i \in 1..Len(fs[p].data), j \in 1..Len(fs[q].data) :
            Len(fs[p].data[i].vector) = Len(fs[q].data[j].vector)

----------------------------------------------------------------------------
(* Accounts (SpecAccounts) *)

\* the texts of the records whose append completed in a turn of username u
TextsAppendedBy(u) == {log[i].rec.text : i \in {j \in 1..Len(log) : log[j].uid = u}}

\* C11 (as claimed): two distinct registered usernames share nothing: what
\* a chat turn of a username retrieves was appended in turns of that same
\* username, and the transcripts its trend analysis reads were saved by it.
C11_AccountsIndependent ==
    \A t \in Threads :
        th[t].uid \in users =>
            /\ BlockTexts(th[t].ctx) \subseteq TextsAppendedBy(th[t].uid)
            /\ (th[t].pc = "rag_exists" /\ Sanitize(th[t].uid) \in DOMAIN sess) =>
                  \A f \in DOMAIN sess[Sanitize(th[t].uid)] :
                      sess[Sanitize(th[t].uid)][f].by = th[t].uid

====
